---- MODULE Spec2Model ----
(***************************************************************************)
(* A model of the YYG/C19Pro SEIR simulator: the RegionModel object        *)
(* (region_model.py), the renewal simulation (simulation.py) and the       *)
(* driver that configures, initializes and runs them (run_simulation.py).  *)
(*                                                                         *)
(* Numbers.  The program computes in float64.  The model computes in       *)
(* fixed point: a real x is the integer x * ONE (four decimals), rounded   *)
(* down after every multiplication.  People (infections, deaths) are in    *)
(* units of 1/PERSON of a person.  Normalized kernels are kept as exact    *)
(* rationals (numerators w over one denominator d), so that "sums to 1"    *)
(* is exact.  Dates are day numbers counted from 2020-01-01.               *)
(***************************************************************************)
EXTENDS Integers, Sequences, FiniteSets, TLC

\* ------------------------------------------------------------------------
\* Fixed-point arithmetic
\* ------------------------------------------------------------------------
ONE == 10000

Min2(a, b) == IF a <= b THEN a ELSE b

Max2(a, b) == IF a >= b THEN a ELSE b

Abs(a) == IF a < 0 THEN -a ELSE a

\* floor(a * b / c) for c > 0, without forming a * b
MulDiv(a, b, c) == (a \div c) * b + ((a % c) * b) \div c

\* product of two fixed-point reals
Mul(a, b) == MulDiv(a, b, ONE)

\* product of two fixed-point reals in [0, 1], rounded to nearest
MulR(a, b) == (a * b + ONE \div 2) \div ONE

\* s[lo] + ... + s[hi], halving the range so that the evaluation stays shallow
RECURSIVE SumRange(_, _, _)
SumRange(s, lo, hi) ==
    IF lo > hi THEN 0
    ELSE IF lo = hi THEN s[lo]
    ELSE LET mid == (lo + hi) \div 2
         IN  SumRange(s, lo, mid) + SumRange(s, mid + 1, hi)

\* np.sum of an array
SumSeq(s) == SumRange(s, 1, Len(s))

\* python slice s[a:b] of a 0-indexed array kept as a 1-indexed sequence,
\* for 0 <= a; b is clamped to the length as python does
Slice(s, a, b) ==
    LET hi == Min2(b, Len(s))
    IN  IF hi <= a THEN << >> ELSE SubSeq(s, a + 1, hi)

\* python s[::-1]
Reverse(s) == [j \in 1..Len(s) |-> s[Len(s) + 1 - j]]

\* exp(-2^(k-1) / 100) * ONE for k = 1..12
ExpTab == <<9900, 9802, 9608, 9231, 8521, 7261, 5273, 2780, 773, 60, 0, 0>>

RECURSIVE ExpNegBits(_, _, _)
ExpNegBits(t, k, acc) ==
    IF t = 0 THEN acc
    ELSE IF k > Len(ExpTab) THEN 0
    ELSE ExpNegBits(t \div 2, k + 1,
                    IF t % 2 = 1 THEN Mul(acc, ExpTab[k]) ELSE acc)

\* the exponent (in hundredths) from which on the exponential is 0
MaxLn == 1024

\* exp(-t / 100) * ONE for every t up to there, computed once
ExpNegTab == [t \in 0..MaxLn |-> ExpNegBits(t, 1, ONE)]

\* np.exp(-t) for t >= 0 given in hundredths: exp(-tc / 100) * ONE
ExpNeg(tc) == IF tc <= MaxLn THEN ExpNegTab[tc] ELSE 0

RECURSIVE NegLnSearch(_, _, _)
NegLnSearch(x, lo, hi) ==
    IF lo >= hi THEN lo
    ELSE LET mid == (lo + hi) \div 2
         IN  IF ExpNegTab[mid] <= x THEN NegLnSearch(x, lo, mid)
             ELSE NegLnSearch(x, mid + 1, hi)

\* -ln(x) in hundredths for a fixed-point x in (0, 1]
NegLn(x) == NegLnSearch(x, 0, MaxLn)

\* float power x ** m for a fixed-point base x in [0, 1] and exponent m >= 0
Pow(x, m) ==
    IF m = 0 THEN ONE
    ELSE IF x <= 0 THEN 0
    ELSE IF x >= ONE THEN ONE
    ELSE ExpNeg(MulDiv(NegLn(x), m, ONE))

\* seq extended by hi - lo further powers of b, each the previous one times
\* b, rounded and saturated at cap; the first half is computed before the
\* second (the range is halved so that the evaluation stays shallow)
RECURSIVE PowLoop(_, _, _, _, _)
PowLoop(b, cap, lo, hi, seq) ==
    IF hi <= lo THEN seq
    ELSE IF hi = lo + 1 THEN Append(seq, Min2(cap, MulR(seq[Len(seq)], b)))
    ELSE LET mid == (lo + hi) \div 2
         IN  CHOOSE r \in {PowLoop(b, cap, mid, hi, s1) :
                              s1 \in {PowLoop(b, cap, lo, mid, seq)}} : TRUE

\* the sequence <<b^0, b^1, ..., b^n>> of float powers b ** k, saturated at cap
PowSeqCap(b, n, cap) == PowLoop(b, cap, 0, n, <<ONE>>)

\* the same for a base b in [0, 1]
PowSeq(b, n) == PowSeqCap(b, n, ONE)

\* ------------------------------------------------------------------------
\* fixed_params.py
\* ------------------------------------------------------------------------
INCUBATION_DAYS == 2

\* [0.5, 1, 2, 3, 2, 1, 0.5], in halves
INFECTIOUS_DAYS_INIT == <<1, 2, 4, 6, 4, 2, 1>>

DEATHS_DAYS_INIT == <<1, 2, 3, 4, 4, 3, 3, 3, 3, 3, 2, 2, 2, 2, 2>>

\* 0.995, 0.975, 0.3 and 0.002 in fixed point
MORTALITY_MULTIPLIER == 9950

MORTALITY_MULTIPLIER_US_REOPEN == 9750

MIN_MORTALITY_MULTIPLIER == 3000

MIN_IFR == 20

DAYS_UNTIL_HOSPITALIZATION == 12

\* 0.02 in fixed point
HOSPITALIZATION_RATE == 200

DAYS_IN_HOSPITAL == 11

DAYS_BEFORE_DEATH == 22

\* 0.5 and 0.3 in fixed point
IMMUNITY_MULTIPLIER == 5000

IMMUNITY_MULTIPLIER_US_SUBREGION == 3000

DAYS_UNTIL_LOCKDOWN_FATIGUE == 28

DAYS_WITH_IMPORTS == 100

USE_UNDETECTED_DEATHS_RATIO == TRUE

DEFAULT_REOPEN_SHIFT_DAYS == 15

DATE_PARAMS == {"INFLECTION_DAY", "REOPEN_DATE"}

\* datetime.date(2020,9,22) as a day number from 2020-01-01
FALL_START_DATE_NORTH == 265

ALL_PARAMS ==
    <<"INITIAL_R_0", "LOCKDOWN_R_0", "INFLECTION_DAY", "RATE_OF_INFLECTION",
      "LOCKDOWN_FATIGUE", "DAILY_IMPORTS", "MORTALITY_RATE", "REOPEN_DATE",
      "REOPEN_SHIFT_DAYS", "REOPEN_R", "REOPEN_INFLECTION",
      "POST_REOPEN_EQUILIBRIUM_R", "FALL_R_MULTIPLIER">>

ParamNames == {ALL_PARAMS[j] : j \in 1..Len(ALL_PARAMS)}

EU_COUNTRIES ==
    {"Austria", "Belgium", "Bulgaria", "Croatia", "Cyprus", "Czechia",
     "Denmark", "Estonia", "Finland", "France", "Germany", "Greece",
     "Hungary", "Ireland", "Italy", "Latvia", "Lithuania", "Luxembourg",
     "Malta", "Netherlands", "Poland", "Portugal", "Romania", "Slovakia",
     "Slovenia", "Spain", "Sweden"}

EUROPEAN_COUNTRIES ==
    EU_COUNTRIES \cup {"United Kingdom", "Switzerland", "Norway", "Belarus",
                       "Iceland", "Moldova", "Serbia", "Ukraine"}

NON_SEASONAL_COUNTRIES ==
    {"Indonesia", "Philippines", "India", "Malaysia", "Nigeria", "Bolivia",
     "Colombia", "Cuba", "Dominican Republic", "Ecuador", "Honduras",
     "Panama", "Peru", "Brazil"}

SOUTHERN_HEMISPHERE_COUNTRIES ==
    {"Argentina", "Australia", "Chile", "South Africa"}

HIGH_INCOME_EUROPEAN_COUNTRIES ==
    {"Iceland", "Norway", "Switzerland", "United Kingdom"}
        \cup (EU_COUNTRIES \ {"Bulgaria"})

HIGH_INCOME_COUNTRIES ==
    {"US", "Australia", "Canada", "Chile", "Israel", "Japan", "South Korea",
     "Kuwait", "Panama", "Saudi Arabia", "United Arab Emirates"}
        \cup HIGH_INCOME_EUROPEAN_COUNTRIES

EARLY_IMPACTED_COUNTRIES ==
    {"US", "Canada", "China", "Japan", "South Korea", "Israel", "Iran"}
        \cup EUROPEAN_COUNTRIES

\* ------------------------------------------------------------------------
\* utils.py, region_model.py: sigmoids
\* ------------------------------------------------------------------------
\* exp(-u) / (1 + exp(-u)) for u in hundredths, of either sign
Logistic(u) ==
    IF u >= 0 THEN LET e == ExpNeg(u) IN MulDiv(e, ONE, ONE + e)
    ELSE (ONE * ONE) \div (ONE + ExpNeg(-u))

\* utils.inv_sigmoid(shift, a, b, c)(x), with a = an / ad in hundredths
inv_sigmoid(shift, an, ad, b, c, x) ==
    Mul(b, Logistic((an * (x - shift)) \div ad)) + c

\* get_transition_sigmoid called with check_values=False everywhere
sigmoid_values_unchecked(inflection_rate, low_value, high_value) == TRUE

\* the assertions of get_transition_sigmoid; rates are in hundredths
sigmoid_values_ok(inflection_rate, low_value, high_value) ==
    /\ 0 < inflection_rate /\ inflection_rate <= 100
    /\ 0 < low_value /\ low_value <= 10 * ONE
    /\ 0 <= high_value /\ high_value <= 10 * ONE

\* get_transition_sigmoid(inflection_idx, inflection_rate, low, high)(x)
get_transition_sigmoid(inflection_idx, inflection_rate, low_value, high_value, x) ==
    inv_sigmoid(inflection_idx, inflection_rate, 1,
                low_value - high_value, high_value, x)

\* ------------------------------------------------------------------------
\* region_model.py: class RegionModel
\* ------------------------------------------------------------------------
\* projection_create_date = None
NoDate == -1

\* int(x) of a fixed-point real: truncation toward zero
IntTrunc(x) == IF x >= 0 THEN x \div ONE ELSE -((-x) \div ONE)

\* np.rint(n / c) for integers n >= 0, c > 0: round half to even
Rint(n, c) ==
    LET q == n \div c
        r == n % c
    IN  IF 2 * r < c THEN q
        ELSE IF 2 * r > c THEN q + 1
        ELSE IF q % 2 = 0 THEN q ELSE q + 1

HasParam(self, k) == k \in DOMAIN self.param

HasAttr(self, a) == a \in self.attrs

\* the attributes a RegionModel has before __init__ has run
NoModel ==
    [country_str |-> "", region_str |-> "", subregion_str |-> "",
     first_date |-> 0, projection_create_date |-> NoDate,
     projection_end_date |-> 0, population |-> 0,
     randomize_params |-> FALSE, compute_hospitalizations |-> FALSE,
     N |-> 0, param |-> << >>, params_tups |-> << >>,
     quarantine_fraction |-> 0, reduction_idx |-> 0,
     beginning_days_flat |-> 0, end_days_offset |-> 0,
     rate_of_inflection |-> 0, daily_imports |-> 0,
     post_reopen_equilibrium_r |-> 0, fall_r_multiplier |-> 0,
     immunity_mult |-> 0, R_0_ARR |-> << >>, reopen_idx |-> 0,
     ifr_arr |-> << >>, undetected_deaths_ratio_arr |-> << >>,
     perc_population_infected_final |-> 0, effective_r_arr |-> << >>,
     attrs |-> {}]

\* the assertions of __init__, were the first to read N >= DAYS_BEFORE_DEATH
init_asserts_at_least(self) ==
    /\ self.N >= DAYS_BEFORE_DEATH
    /\ self.projection_create_date # NoDate =>
          /\ self.first_date < self.projection_create_date
          /\ self.projection_create_date < self.projection_end_date

\* lines 86-91: the assertions of __init__ ("if projection_create_date:"
\* skips the last two when no date is given)
init_asserts(self) ==
    /\ self.N > DAYS_BEFORE_DEATH
    /\ self.projection_create_date # NoDate =>
          /\ self.first_date < self.projection_create_date
          /\ self.projection_create_date < self.projection_end_date

\* RegionModel.__init__: the object, and whether its assertions passed
RegionModel_init(country_str, region_str, subregion_str, first_date, projection_create_date, projection_end_date, population, randomize_params, compute_hospitalizations) ==
    LET N == (projection_end_date - first_date) + 1
        self == [NoModel EXCEPT
                    !.country_str = country_str,
                    !.region_str = region_str,
                    !.subregion_str = subregion_str,
                    !.first_date = first_date,
                    !.projection_create_date = projection_create_date,
                    !.projection_end_date = projection_end_date,
                    !.population = population,
                    !.randomize_params = randomize_params,
                    !.compute_hospitalizations = compute_hospitalizations,
                    !.N = N]
    IN  [ok |-> init_asserts(self), rm |-> self]

get_day_idx_from_date(self, date) == date - self.first_date

get_date_from_day_idx(self, day_idx) == self.first_date + day_idx

inflection_day_idx(self) == get_day_idx_from_date(self, self.param["INFLECTION_DAY"])

has_us_seasonality(self) ==
    self.country_str \notin (SOUTHERN_HEMISPHERE_COUNTRIES \cup NON_SEASONAL_COUNTRIES)

get_reopen_r(self) ==
    IF self.param["LOCKDOWN_R_0"] < ONE
    THEN Max2(self.param["LOCKDOWN_R_0"], self.param["REOPEN_R"])
    ELSE self.param["REOPEN_R"]

\* RegionModel.get_immunity_mult
RegionModel_get_immunity_mult(self) ==
    IF self.country_str = "US"
    THEN IF self.subregion_str # "" THEN IMMUNITY_MULTIPLIER_US_SUBREGION
         ELSE IMMUNITY_MULTIPLIER
    ELSE IF self.subregion_str # "" THEN IMMUNITY_MULTIPLIER
    ELSE IF self.population < 20000000 THEN IMMUNITY_MULTIPLIER
    ELSE inv_sigmoid(50000000, 3, 1000000, IMMUNITY_MULTIPLIER - ONE, ONE,
                     self.population)

\* --- build_r_0_arr ---------------------------------------------------------
\* the day indices and the curve parameters computed before the loop
r_0_context(self) ==
    LET reopen_r == get_reopen_r(self)
        reopen_date_shift ==
            self.param["REOPEN_DATE"] + IntTrunc(self.param["REOPEN_SHIFT_DAYS"])
                + DEFAULT_REOPEN_SHIFT_DAYS
        reopen_idx == get_day_idx_from_date(self, reopen_date_shift)
        days_until_post_reopen ==
            IF self.param["REOPEN_INFLECTION"] > 0
            THEN Rint(600, self.param["REOPEN_INFLECTION"]) ELSE -1
    IN  [reopen_r |-> reopen_r,
         inflection_day_idx |-> inflection_day_idx(self),
         fatigue_idx |-> inflection_day_idx(self) + DAYS_UNTIL_LOCKDOWN_FATIGUE,
         reopen_idx |-> reopen_idx,
         lockdown_reopen_midpoint_idx |->
            (inflection_day_idx(self) + reopen_idx) \div 2,
         days_until_post_reopen |-> days_until_post_reopen,
         post_reopen_midpoint_idx |-> reopen_idx + days_until_post_reopen,
         post_reopen_idx |-> reopen_idx + days_until_post_reopen * 2,
         fall_start_idx |->
            get_day_idx_from_date(self, FALL_START_DATE_NORTH) - 30,
         \* fall_r_multiplier ** n for n = 0.., saturated at 2 (the loop
         \* clamps it to [0.9, 1.5])
         fall_pow |->
            PowSeqCap(self.fall_r_multiplier,
                      Max2(0, self.N - (get_day_idx_from_date(self, FALL_START_DATE_NORTH) - 30)),
                      2 * ONE)]

\* the assertions that build_r_0_arr makes before its loop
r_0_params_ok(self, c) ==
    /\ 5000 <= self.param["LOCKDOWN_FATIGUE"]
    /\ self.param["LOCKDOWN_FATIGUE"] <= 15000
    /\ 10 <= c.days_until_post_reopen /\ c.days_until_post_reopen <= 80
    /\ sigmoid_values_ok(self.rate_of_inflection, self.param["INITIAL_R_0"],
                         self.param["LOCKDOWN_R_0"])
    /\ sigmoid_values_ok(self.param["REOPEN_INFLECTION"],
                         Mul(self.param["LOCKDOWN_R_0"], self.param["LOCKDOWN_FATIGUE"]),
                         c.reopen_r)
    /\ sigmoid_values_ok(self.param["REOPEN_INFLECTION"], c.reopen_r,
                         Min2(c.reopen_r, self.post_reopen_equilibrium_r))

\* the choice of the curve, were the midpoint day still a lockdown day
r_0_regime_midpoint_in_lockdown(c, day_idx) ==
    IF day_idx <= c.lockdown_reopen_midpoint_idx THEN "lockdown"
    ELSE IF day_idx > c.post_reopen_midpoint_idx THEN "equilibrium"
    ELSE "reopen"

\* which curve day_idx takes its value from
r_0_regime(c, day_idx) ==
    IF day_idx < c.lockdown_reopen_midpoint_idx THEN "lockdown"
    ELSE IF day_idx > c.post_reopen_midpoint_idx THEN "equilibrium"
    ELSE "reopen"

\* r_t of one day, before the stability check
r_0_day(self, c, day_idx) ==
    LET regime == r_0_regime(c, day_idx)
        sig_lockdown ==
            get_transition_sigmoid(c.inflection_day_idx, self.rate_of_inflection,
                self.param["INITIAL_R_0"], self.param["LOCKDOWN_R_0"], day_idx)
        sig_fatigue ==
            get_transition_sigmoid(c.fatigue_idx, 20, 0,
                self.param["LOCKDOWN_FATIGUE"] - ONE, day_idx)
        sig_reopen ==
            get_transition_sigmoid(c.reopen_idx, self.param["REOPEN_INFLECTION"],
                Mul(self.param["LOCKDOWN_R_0"], self.param["LOCKDOWN_FATIGUE"]),
                c.reopen_r, day_idx)
        sig_post_reopen ==
            get_transition_sigmoid(c.post_reopen_idx, self.param["REOPEN_INFLECTION"],
                c.reopen_r, Min2(c.reopen_r, self.post_reopen_equilibrium_r),
                day_idx)
        r_curve ==
            IF regime = "lockdown"
            THEN IF self.param["LOCKDOWN_FATIGUE"] # ONE
                 THEN Mul(sig_lockdown, ONE + sig_fatigue)
                 ELSE sig_lockdown
            ELSE IF regime = "equilibrium" THEN sig_post_reopen
            ELSE sig_reopen
        fall_r_mult ==
            Max2(9000, Min2(15000, c.fall_pow[day_idx - c.fall_start_idx + 1]))
    IN  IF day_idx > c.fall_start_idx THEN Mul(r_curve, fall_r_mult)
        ELSE r_curve

\* abs(r_t / prev - 1) > 0.2 in float division: a zero prev gives inf or nan
r_changed_too_quickly(r_t, prev) ==
    IF prev = 0 THEN r_t # 0
    ELSE 5 * Abs(r_t - prev) > Abs(prev)

\* a build_r_0_arr without the stability check
r_0_unstable_unchecked(c, day_idx, r_t, prev) == FALSE

\* "Make sure R is stable": the day is checked against the previous day
r_0_unstable(c, day_idx, r_t, prev) ==
    day_idx > c.reopen_idx /\ r_changed_too_quickly(r_t, prev)

\* a first entry taken from the curve, as those of the later days are
r_0_first_on_curve(self) == r_0_day(self, r_0_context(self), 0)

\* the first entry of the array, set before the loop
r_0_first(self) == self.param["INITIAL_R_0"]

\* the range of the loop of build_r_0_arr
r_0_loop_days(self) == 1..(self.N - 1)

\* the first entry followed by the r_t of every pass of the loop
r_0_values(self, c) ==
    [j \in 1..(1 + Cardinality(r_0_loop_days(self))) |->
        IF j = 1 THEN r_0_first(self) ELSE r_0_day(self, c, j - 1)]

\* the loop of build_r_0_arr.  r_t depends on day_idx alone and every r_t
\* that passes the check is appended as it is, so R_0_ARR[-1] is the r_t of
\* the day before: the loop raises iff some day fails the check against it
r_0_loop(self, c) ==
    LET R_0_ARR == SubSeq(r_0_values(self, c), 1, self.N)
    IN  [ok |-> \A day_idx \in r_0_loop_days(self) :
                    ~r_0_unstable(c, day_idx, R_0_ARR[day_idx + 1], R_0_ARR[day_idx]),
         R_0_ARR |-> R_0_ARR]

\* RegionModel.build_r_0_arr: the array it returns and the reopen_idx it
\* records on the object, or ok = FALSE when an assertion fails
build_r_0_arr(self) ==
    IF ~({"LOCKDOWN_R_0", "REOPEN_R", "LOCKDOWN_FATIGUE", "REOPEN_DATE",
          "REOPEN_SHIFT_DAYS", "INFLECTION_DAY", "REOPEN_INFLECTION",
          "INITIAL_R_0"} \subseteq DOMAIN self.param)
    THEN [ok |-> FALSE, R_0_ARR |-> << >>, reopen_idx |-> 0]
    ELSE LET c == r_0_context(self)
         IN  IF ~r_0_params_ok(self, c)
             THEN [ok |-> FALSE, R_0_ARR |-> << >>, reopen_idx |-> 0]
             ELSE LET res == r_0_loop(self, c)
                  IN  [ok |-> res.ok, R_0_ARR |-> res.R_0_ARR,
                       reopen_idx |-> c.reopen_idx]

\* --- build_ifr_arr ---------------------------------------------------------
region_tuple(self) == <<self.country_str, self.region_str, self.subregion_str>>

min_mortality_multiplier(self) ==
    IF SubSeq(region_tuple(self), 1, 2) = <<"US", "MA">> THEN 5000
    ELSE MIN_MORTALITY_MULTIPLIER

\* the value of one day without the floor at MIN_IFR
ifr_floor_absent(mortality_rate, ifr_mult) == Mul(mortality_rate, ifr_mult)

\* the value max(MIN_IFR, MORTALITY_RATE * ifr_mult) of one day
ifr_floor(mortality_rate, ifr_mult) == Max2(MIN_IFR, Mul(mortality_rate, ifr_mult))

\* days_after_reopening, were it to fall back to 0 once the 30 days are over
days_after_reopening_window_only(self, idx) ==
    LET d == idx - (self.reopen_idx + DAYS_BEFORE_DEATH \div 2)
    IN  IF d > 30 THEN 0 ELSE Max2(0, d)

\* max(0, min(30, idx - (self.reopen_idx + DAYS_BEFORE_DEATH // 2)))
days_after_reopening(self, idx) ==
    Max2(0, Min2(30, idx - (self.reopen_idx + DAYS_BEFORE_DEATH \div 2)))

\* the ifr of day idx; pm and pr are the powers of the two multipliers
ifr_day(self, idx, pm, pr) ==
    LET early == self.country_str \in EARLY_IMPACTED_COUNTRIES
        total_days_with_mult ==
            IF early THEN Max2(0, idx - 30) ELSE Max2(0, idx - 120)
        days_else ==
            Max2(0, total_days_with_mult - days_after_reopening(self, idx))
        ifr_mult ==
            IF early
            THEN Max2(min_mortality_multiplier(self),
                      MulR(pm[days_else + 1],
                           pr[days_after_reopening(self, idx) + 1]))
            ELSE Max2(min_mortality_multiplier(self), pm[total_days_with_mult + 1])
    IN  ifr_floor(self.param["MORTALITY_RATE"], ifr_mult)

\* RegionModel.build_ifr_arr
build_ifr_arr(self) ==
    IF ~HasParam(self, "MORTALITY_RATE") THEN [ok |-> FALSE, ifr_arr |-> << >>]
    ELSE IF ~(0 < self.param["MORTALITY_RATE"] /\ self.param["MORTALITY_RATE"] < 2000)
    THEN [ok |-> FALSE, ifr_arr |-> << >>]
    ELSE LET pm == PowSeq(MORTALITY_MULTIPLIER, self.N)
             pr == PowSeq(MORTALITY_MULTIPLIER_US_REOPEN, 30)
         IN  [ok |-> TRUE,
              ifr_arr |-> [j \in 1..self.N |-> ifr_day(self, j - 1, pm, pr)]]

\* --- build_undetected_deaths_ratio_arr -------------------------------------
days_until_min_undetected(self) ==
    IF self.country_str \in HIGH_INCOME_COUNTRIES THEN 60 ELSE 120

\* 0.05, 0.5, 0.25, 0.2 and 0.15 in fixed point
min_undetected(self) ==
    IF self.country_str \in HIGH_INCOME_COUNTRIES THEN 500
    ELSE IF self.country_str \in {"Ecuador", "India", "Pakistan"} THEN 5000
    ELSE IF self.country_str \in {"Indonesia", "Peru", "South Africa"} THEN 2500
    ELSE IF self.country_str \in {"Brazil", "Mexico", "Russia"} THEN 2000
    ELSE 1500

\* the ramp without its floor at min_undetected
undetected_day_unfloored(init_ratio, min_u, days, idx) ==
    init_ratio - MulDiv(init_ratio - min_u, idx, days)

\* init_undetected_deaths_ratio - daily_step * idx, floored at min_undetected.
\* daily_step * idx is taken as the real number (init - min) * idx / days; in
\* float64 the rounding of daily_step can leave the value of day idx = days
\* one unit in the last place above min_undetected (0.05 and 0.15 classes)
undetected_day(init_ratio, min_u, days, idx) ==
    Max2(min_u, init_ratio - MulDiv(init_ratio - min_u, idx, days))

\* RegionModel.build_undetected_deaths_ratio_arr
build_undetected_deaths_ratio_arr(self) ==
    IF ~USE_UNDETECTED_DEATHS_RATIO THEN [j \in 1..self.N |-> 0]
    ELSE [j \in 1..self.N |->
            undetected_day(ONE, min_undetected(self),
                           days_until_min_undetected(self), j - 1)]

\* RegionModel.get_reporting_delay_distribution: DEATH_REPORTING_LAG_ARR
\* ([0] + [15 * 0.85**i for i in range(30)]) divided by its sum, as the
\* numerators w over the denominator d
DEATH_REPORTING_LAG_ARR ==
    LET p == PowSeq(8500, 29)
    IN  <<0>> \o [j \in 1..30 |-> 15 * p[j]]

get_reporting_delay_distribution ==
    [w |-> DEATH_REPORTING_LAG_ARR, d |-> SumSeq(DEATH_REPORTING_LAG_ARR)]

\* --- init_params -----------------------------------------------------------
\* the loop "for k, v in params_tups": it stops at the first date parameter
\* that precedes first_date, with the earlier attributes already set
RECURSIVE set_param_attrs(_, _, _)
set_param_attrs(self, params_tups, j) ==
    IF j > Len(params_tups) THEN [ok |-> TRUE, rm |-> self]
    ELSE LET k == params_tups[j][1]
             v == params_tups[j][2]
         IN  IF k \in DATE_PARAMS /\ ~(v >= self.first_date)
             THEN [ok |-> FALSE, rm |-> self]
             ELSE set_param_attrs([self EXCEPT !.param = (k :> v) @@ @],
                                  params_tups, j + 1)

\* the assertion, were a reopening on the inflection day itself allowed
reopen_not_before_inflection(self) ==
    /\ HasParam(self, "REOPEN_DATE") /\ HasParam(self, "INFLECTION_DAY")
    /\ self.param["REOPEN_DATE"] >= self.param["INFLECTION_DAY"]

\* assert self.REOPEN_DATE > self.INFLECTION_DAY
reopen_after_inflection(self) ==
    /\ HasParam(self, "REOPEN_DATE") /\ HasParam(self, "INFLECTION_DAY")
    /\ self.param["REOPEN_DATE"] > self.param["INFLECTION_DAY"]

\* assert set(names).issubset(set(ALL_PARAMS))
known_params(params_tups) ==
    \A j \in 1..Len(params_tups) : params_tups[j][1] \in ParamNames

\* the values np.random.randint(0.5 d, 1.5 d) is sampled at (empty: ValueError)
daily_imports_draws(d) ==
    IF d \div 2 >= (3 * d) \div 2 THEN {}
    ELSE {d \div 2, Max2(d \div 2, (3 * d) \div 2 - 1)}

\* (low, mode, high) of the triangular draw of set_post_reopen_equilibrium_r
post_reopen_equilibrium_r_range(self) ==
    IF self.country_str = "US"
    THEN IF self.region_str \in {"AZ", "FL", "OH", "HI"} THEN <<8500, 9500, 10500>>
         ELSE IF self.param["REOPEN_R"] < 11000 THEN <<8500, 9500, 10500>>
         ELSE <<9000, 10000, 11000>>
    ELSE IF self.country_str \in {"Brazil", "Mexico"} THEN <<10000, 11000, 12000>>
    ELSE IF self.country_str \in {"Australia"} THEN <<8000, 9000, 10000>>
    ELSE <<8500, 10000, 11500>>

\* (low, mode, high) of the triangular draw of set_fall_r_multiplier
fall_r_multiplier_range == <<9970, 10010, 10050>>

\* set_rate_of_inflection; draw.rate indexes the sampled values
set_rate_of_inflection(self, draw) ==
    IF ~HasParam(self, "RATE_OF_INFLECTION") THEN [ok |-> FALSE, rm |-> self]
    ELSE [ok |-> TRUE,
          rm |-> [self EXCEPT
                    !.rate_of_inflection =
                        IF self.randomize_params
                        THEN MulDiv(self.param["RATE_OF_INFLECTION"], 2 + draw.rate, 4)
                        ELSE self.param["RATE_OF_INFLECTION"],
                    !.attrs = @ \cup {"rate_of_inflection"}]]

\* set_daily_imports; draw.imports picks the low or the high end
set_daily_imports(self, draw) ==
    IF ~HasParam(self, "DAILY_IMPORTS") THEN [ok |-> FALSE, rm |-> self]
    ELSE LET d == self.param["DAILY_IMPORTS"]
         IN  IF self.randomize_params /\ daily_imports_draws(d) = {}
             THEN [ok |-> FALSE, rm |-> self]
             ELSE [ok |-> TRUE,
                   rm |-> [self EXCEPT
                            !.daily_imports =
                                IF self.randomize_params
                                THEN IF draw.imports = 1 THEN d \div 2
                                     ELSE Max2(d \div 2, (3 * d) \div 2 - 1)
                                ELSE d,
                            !.attrs = @ \cup {"daily_imports"}]]

\* set_post_reopen_equilibrium_r; draw.eq indexes (low, mode, high)
set_post_reopen_equilibrium_r(self, draw) ==
    IF ~HasParam(self, "POST_REOPEN_EQUILIBRIUM_R")
            /\ self.country_str = "US"
            /\ self.region_str \notin {"AZ", "FL", "OH", "HI"}
            /\ ~HasParam(self, "REOPEN_R")
    THEN [ok |-> FALSE, rm |-> self]
    ELSE LET v == IF HasParam(self, "POST_REOPEN_EQUILIBRIUM_R")
                  THEN self.param["POST_REOPEN_EQUILIBRIUM_R"]
                  ELSE post_reopen_equilibrium_r_range(self)[draw.eq]
         IN  IF ~(0 < v /\ v < 10 * ONE) THEN [ok |-> FALSE, rm |-> self]
             ELSE [ok |-> TRUE,
                   rm |-> [self EXCEPT !.post_reopen_equilibrium_r = v,
                            !.attrs = @ \cup {"post_reopen_equilibrium_r"}]]

\* set_fall_r_multiplier; draw.fall indexes (low, mode, high)
set_fall_r_multiplier(self, draw) ==
    [self EXCEPT
        !.fall_r_multiplier =
            IF HasParam(self, "FALL_R_MULTIPLIER") THEN self.param["FALL_R_MULTIPLIER"]
            ELSE IF ~has_us_seasonality(self) THEN ONE
            ELSE fall_r_multiplier_range[draw.fall],
        !.attrs = @ \cup {"fall_r_multiplier"}]

\* the random draws init_params can make on this object with these parameters
init_params_draws(self, params_tups) ==
    LET names == {params_tups[j][1] : j \in 1..Len(params_tups)}
    IN  [rate : IF self.randomize_params THEN {1, 3} ELSE {2},
         imports : IF self.randomize_params THEN 1..2 ELSE {1},
         eq : IF "POST_REOPEN_EQUILIBRIUM_R" \in names THEN {2} ELSE 1..3,
         fall : IF "FALL_R_MULTIPLIER" \in names \/ ~has_us_seasonality(self)
                THEN {2} ELSE 1..3]

\* the assignments of the derived trajectories, lines 125-128, in order
init_derived(self) ==
    LET s1 == [self EXCEPT !.immunity_mult = RegionModel_get_immunity_mult(self),
                           !.attrs = @ \cup {"immunity_mult"}]
        r == build_r_0_arr(s1)
        s2 == [s1 EXCEPT !.R_0_ARR = r.R_0_ARR, !.reopen_idx = r.reopen_idx,
                         !.attrs = @ \cup {"R_0_ARR", "reopen_idx"}]
        f == build_ifr_arr(s2)
        s3 == [s2 EXCEPT !.ifr_arr = f.ifr_arr, !.attrs = @ \cup {"ifr_arr"}]
        s4 == [s3 EXCEPT
                !.undetected_deaths_ratio_arr = build_undetected_deaths_ratio_arr(s3),
                !.attrs = @ \cup {"undetected_deaths_ratio_arr"}]
    IN  IF ~r.ok THEN [ok |-> FALSE, rm |-> s1]
        ELSE IF ~f.ok THEN [ok |-> FALSE, rm |-> s2]
        ELSE [ok |-> TRUE, rm |-> s4]

\* RegionModel.init_params: the object as the call leaves it, and whether
\* the call returned (ok) or raised
init_params(self, params_tups, draw) ==
    LET a == set_param_attrs(self, params_tups, 1)
        b == [a.rm EXCEPT !.params_tups = params_tups,
                          !.attrs = @ \cup {"params_tups"}]
        c == set_rate_of_inflection(b, draw)
        d == set_daily_imports(c.rm, draw)
        e == set_post_reopen_equilibrium_r(d.rm, draw)
    IN  IF ~a.ok THEN a
        ELSE IF ~reopen_after_inflection(a.rm) THEN [ok |-> FALSE, rm |-> a.rm]
        ELSE IF ~known_params(params_tups) THEN [ok |-> FALSE, rm |-> b]
        ELSE IF ~c.ok THEN c
        ELSE IF ~d.ok THEN d
        ELSE IF ~e.ok THEN e
        ELSE init_derived(set_fall_r_multiplier(e.rm, draw))

\* ------------------------------------------------------------------------
\* simulation.py
\* ------------------------------------------------------------------------
\* numbers of people (infections, hospitalizations, deaths) are floats, kept
\* in units of 1 / PERSON of a person
PERSON == 100

\* int(x) of a number of people x
IntPeople(x) == IF x >= 0 THEN (x \div PERSON) * PERSON
                ELSE -(((-x) \div PERSON) * PERSON)

\* a float that is nan, or the fixed-point number v
NaN == [nan |-> TRUE, v |-> 0]

Num(x) == [nan |-> FALSE, v |-> x]

\* get_daily_imports, were the floor of ~10 imports a day kept everywhere
get_daily_imports_floored(region_model, i) ==
    LET N == region_model.N
        beginning_days_flat ==
            IF HasAttr(region_model, "beginning_days_flat")
            THEN region_model.beginning_days_flat ELSE 10
        end_days_offset ==
            IF HasAttr(region_model, "end_days_offset")
            THEN region_model.end_days_offset
            ELSE N - Min2(N, DAYS_WITH_IMPORTS)
        n_ == N - beginning_days_flat - end_days_offset + 1
        base == region_model.param["DAILY_IMPORTS"] * PERSON
        m == Max2(0, i - beginning_days_flat + 1)
        daily_imports == IF m >= n_ THEN 0 ELSE MulDiv(base, n_ - m, n_)
    IN  IF ~(i < N /\ beginning_days_flat >= 0
                   /\ beginning_days_flat + end_days_offset <= N)
        THEN [ok |-> FALSE, v |-> 0]
        ELSE [ok |-> TRUE,
              v |-> Max2(daily_imports, Min2(10 * PERSON, base \div 10))]

\* get_daily_imports(region_model, i): ok = FALSE when an assertion fails
get_daily_imports(region_model, i) ==
    LET N == region_model.N
        beginning_days_flat ==
            IF HasAttr(region_model, "beginning_days_flat")
            THEN region_model.beginning_days_flat ELSE 10
        end_days_offset ==
            IF HasAttr(region_model, "end_days_offset")
            THEN region_model.end_days_offset
            ELSE N - Min2(N, DAYS_WITH_IMPORTS)
        n_ == N - beginning_days_flat - end_days_offset + 1
        base == region_model.param["DAILY_IMPORTS"] * PERSON
        m == Max2(0, i - beginning_days_flat + 1)
        daily_imports == IF m >= n_ THEN 0 ELSE MulDiv(base, n_ - m, n_)
    IN  IF ~(i < N /\ beginning_days_flat >= 0
                   /\ beginning_days_flat + end_days_offset <= N)
        THEN [ok |-> FALSE, v |-> 0]
        ELSE IF region_model.country_str \notin {"China", "South Korea", "Australia"}
                /\ ~HasAttr(region_model, "end_days_offset")
        THEN [ok |-> TRUE,
              v |-> Max2(daily_imports, Min2(10 * PERSON, base \div 10))]
        ELSE [ok |-> TRUE, v |-> daily_imports]

\* simulation.get_immunity_mult(region_model)
get_immunity_mult(region_model) ==
    LET population == region_model.population
        immunity_mult ==
            IF region_model.country_str = "US"
            THEN IF region_model.subregion_str # ""
                 THEN IMMUNITY_MULTIPLIER_US_SUBREGION
                 ELSE IMMUNITY_MULTIPLIER
            ELSE IF region_model.subregion_str # "" THEN IMMUNITY_MULTIPLIER
            ELSE IF population < 20000000
            THEN inv_sigmoid(10000000, 3, 100000, IMMUNITY_MULTIPLIER - ONE, ONE,
                             population)
            ELSE inv_sigmoid(20000000, 3, 1000000, IMMUNITY_MULTIPLIER - 12500,
                             12500, population)
    IN  IF region_model.country_str \notin EARLY_IMPACTED_COUNTRIES
        THEN Mul(immunity_mult, 11000)
        ELSE immunity_mult

\* arr[::-1] / arr.sum(): the weights w over the denominator d
normalized(arr) == [w |-> Reverse(arr), d |-> SumSeq(arr)]

\* infections_norm left as it was normalized
quarantine_unadjusted(norm, quarantine_fraction, reduction_idx) == norm

\* lines 103-110: the quarantine adjustment of infections_norm, the
\* fraction being given in percent
quarantine_adjusted(norm, quarantine_fraction, reduction_idx) ==
    [w |-> [j \in 1..Len(norm.w) |->
              IF j - 1 < reduction_idx
              THEN norm.w[j] * 2 * (100 - quarantine_fraction)
              ELSE IF j - 1 = reduction_idx
              THEN norm.w[j] * 100 + norm.w[j] * (100 - quarantine_fraction)
              ELSE norm.w[j] * 200],
     d |-> norm.d * 200]

\* infections_norm as the infections loop uses it
infections_norm_of(region_model, infectious_days_arr) ==
    IF HasAttr(region_model, "quarantine_fraction")
    THEN quarantine_adjusted(normalized(infectious_days_arr),
                             region_model.quarantine_fraction,
                             region_model.reduction_idx)
    ELSE normalized(infectious_days_arr)

\* INFECTIOUS_DAYS_ARR after run, were infections_norm a view of it: the
\* quarantine writes of lines 105-110 scale its most recent days
infectious_days_arr_written_through(region_model, infectious_days_arr) ==
    IF HasAttr(region_model, "quarantine_fraction")
    THEN [j \in 1..Len(infectious_days_arr) |->
            infectious_days_arr[j] *
                (IF Len(infectious_days_arr) - j < region_model.reduction_idx
                 THEN 100 - region_model.quarantine_fraction ELSE 100)]
    ELSE infectious_days_arr

\* INFECTIOUS_DAYS_ARR after run: the division of line 102 allocates a new
\* array, so the writes of lines 105-110 do not reach the module-level one
infectious_days_arr_after(region_model, infectious_days_arr) ==
    infectious_days_arr

\* (a * kernel).sum() for an array a and the first Len(a) kernel weights
dot(a, norm) == SumSeq([j \in 1..Len(a) |-> MulDiv(a[j], norm.w[j], norm.d)])

\* min(1., infections[:i-1].sum() / population) on day i
perc_population_infected(infections, i, population) ==
    Min2(ONE, MulDiv(SumSeq(Slice(infections, 0, i - 1)), ONE \div PERSON,
                     population))

\* the infections of a non-seeding day i without the imports
new_infections(region_model, infections_norm, immunity_mult, infections, i, perc) ==
    LET r_immunity_perc == Pow(ONE - perc, immunity_mult)
        effective_r == Mul(region_model.R_0_ARR[i + 1], r_immunity_perc)
        k == Len(infections_norm.w)
        window == Slice(infections, i - INCUBATION_DAYS - k + 1,
                        i - INCUBATION_DAYS + 1)
    IN  [effective_r |-> effective_r,
         s |-> Mul(dot(window, infections_norm), effective_r)]

\* the value of a seeding day
seed_infections(region_model, i) ==
    region_model.param["DAILY_IMPORTS"] * PERSON

\* one pass of the loop "for i in range(N)"; st holds what the earlier
\* passes left, st.ok = FALSE once an assertion has failed
infections_step(region_model, infections_norm, immunity_mult, i, st) ==
    IF ~st.ok THEN st
    ELSE IF i < INCUBATION_DAYS + Len(infections_norm.w)
    THEN [st EXCEPT
            !.infections = Append(@, seed_infections(region_model, i)),
            !.effective_r_arr = Append(@, region_model.R_0_ARR[i + 1])]
    ELSE LET perc == perc_population_infected(st.infections, i,
                                              region_model.population)
             n == new_infections(region_model, infections_norm, immunity_mult,
                                 st.infections, i, perc)
             imports == get_daily_imports(region_model, i)
         IN  IF ~(0 <= perc /\ perc <= ONE) \/ ~imports.ok
             THEN [st EXCEPT !.ok = FALSE]
             ELSE [ok |-> TRUE,
                   infections |-> Append(st.infections, n.s + imports.v),
                   effective_r_arr |-> Append(st.effective_r_arr, n.effective_r),
                   perc_final |-> perc]

\* the passes lo..hi-1 of the loop, in order (the range is halved so that
\* the evaluation stays shallow)
RECURSIVE infections_loop(_, _, _, _, _, _)
infections_loop(region_model, infections_norm, immunity_mult, lo, hi, st) ==
    IF hi <= lo THEN st
    ELSE IF hi = lo + 1
    THEN infections_step(region_model, infections_norm, immunity_mult, lo, st)
    ELSE LET mid == (lo + hi) \div 2
         IN  CHOOSE r \in
                {infections_loop(region_model, infections_norm, immunity_mult,
                                 mid, hi, s1) :
                    s1 \in {infections_loop(region_model, infections_norm,
                                            immunity_mult, lo, mid, st)}} : TRUE

\* hospitalizations[_i], were the window to take in the day end_idx as well
hospitalizations_day_through_end(infections, i) ==
    LET start_idx == Max2(0, i - DAYS_UNTIL_HOSPITALIZATION - DAYS_IN_HOSPITAL)
        end_idx == Max2(0, i - DAYS_UNTIL_HOSPITALIZATION)
    IN  IntPeople(Mul(SumSeq(Slice(infections, start_idx, end_idx + 1)),
                      HOSPITALIZATION_RATE))

\* hospitalizations[_i] when compute_hospitalizations is set, in whole people
hospitalizations_day(infections, i) ==
    LET start_idx == Max2(0, i - DAYS_UNTIL_HOSPITALIZATION - DAYS_IN_HOSPITAL)
        end_idx == Max2(0, i - DAYS_UNTIL_HOSPITALIZATION)
    IN  IntPeople(Mul(SumSeq(Slice(infections, start_idx, end_idx)),
                      HOSPITALIZATION_RATE))

\* the hospitalizations array computed whatever compute_hospitalizations is
hospitalizations_always(region_model, infections) ==
    [j \in 1..region_model.N |-> Num(hospitalizations_day(infections, j - 1))]

\* the hospitalizations array: nan unless compute_hospitalizations
hospitalizations_of(region_model, infections) ==
    [j \in 1..region_model.N |->
        IF region_model.compute_hospitalizations
        THEN Num(hospitalizations_day(infections, j - 1))
        ELSE NaN]

\* infections_subject_to_death for the loop index _i
infections_subject_to_death(infections, deaths_norm, i) ==
    LET deaths_offset == Len(deaths_norm.w) \div 2
        window == Slice(infections, Max2(0, i - deaths_offset), i + deaths_offset + 1)
    IN  dot(window, deaths_norm)

\* the value written to deaths[_i + DAYS_BEFORE_DEATH]
reported_deaths(region_model, infections, deaths_norm, i) ==
    LET true_deaths ==
            Mul(infections_subject_to_death(infections, deaths_norm, i),
                region_model.ifr_arr[i + DAYS_BEFORE_DEATH + 1])
    IN  Mul(true_deaths,
            ONE - region_model.undetected_deaths_ratio_arr[i + DAYS_BEFORE_DEATH + 1])

\* the deaths array, were the deaths of loop index _i written to the day
\* _i + deaths_offset rather than _i + DAYS_BEFORE_DEATH
deaths_of_unshifted(region_model, infections, deaths_norm) ==
    LET deaths_offset == Len(deaths_norm.w) \div 2
    IN  [j \in 1..region_model.N |->
            LET i == (j - 1) - deaths_offset
            IN  IF i < region_model.N - DAYS_BEFORE_DEATH
                THEN reported_deaths(region_model, infections, deaths_norm, i)
                ELSE 0]

\* the deaths array after "for _i in range(-deaths_offset, N-DAYS_BEFORE_DEATH)"
deaths_of(region_model, infections, deaths_norm) ==
    LET deaths_offset == Len(deaths_norm.w) \div 2
    IN  [j \in 1..region_model.N |->
            LET i == (j - 1) - DAYS_BEFORE_DEATH
            IN  IF i >= -deaths_offset
                THEN reported_deaths(region_model, infections, deaths_norm, i)
                ELSE 0]

\* the dates array, were it to stop the day before projection_end_date
dates_of_end_exclusive(region_model) ==
    [j \in 1..(region_model.N - 1) |-> region_model.first_date + (j - 1)]

\* lines 86-87: first_date + timedelta(days=i) for i in range(N)
dates_of(region_model) ==
    [j \in 1..region_model.N |-> region_model.first_date + (j - 1)]

\* simulation.run(region_model): what it returns, the object as it leaves
\* it, and the module-level kernels afterwards; ok = FALSE when it raises
run(region_model, infectious_days_arr, deaths_days_arr) ==
    LET deaths_norm == normalized(deaths_days_arr)
        infections_norm == infections_norm_of(region_model, infectious_days_arr)
        immunity_mult == get_immunity_mult(region_model)
        loop == infections_loop(region_model, infections_norm, immunity_mult,
                    0, region_model.N,
                    [ok |-> TRUE, infections |-> << >>,
                     effective_r_arr |-> << >>, perc_final |-> 0])
    IN  IF ~(0 <= immunity_mult /\ immunity_mult <= 2 * ONE) \/ ~loop.ok
            \/ Len(deaths_norm.w) % 2 # 1
        THEN [ok |-> FALSE, dates |-> << >>, infections |-> << >>,
              hospitalizations |-> << >>, deaths |-> << >>,
              rm |-> region_model,
              INFECTIOUS_DAYS_ARR |->
                infectious_days_arr_after(region_model, infectious_days_arr),
              DEATHS_DAYS_ARR |-> deaths_days_arr]
        ELSE [ok |-> TRUE,
              dates |-> dates_of(region_model),
              infections |-> loop.infections,
              hospitalizations |-> hospitalizations_of(region_model, loop.infections),
              deaths |-> deaths_of(region_model, loop.infections, deaths_norm),
              rm |-> [region_model EXCEPT
                        !.perc_population_infected_final = loop.perc_final,
                        !.effective_r_arr = loop.effective_r_arr,
                        !.attrs = @ \cup {"perc_population_infected_final",
                                          "effective_r_arr"}],
              INFECTIOUS_DAYS_ARR |->
                infectious_days_arr_after(region_model, infectious_days_arr),
              DEATHS_DAYS_ARR |-> deaths_days_arr]

\* ------------------------------------------------------------------------
\* run_simulation.py: main, as a state machine
\* ------------------------------------------------------------------------
VARIABLES
    pc,                  \* where main is: "config", "constructed", "ready",
                         \* "ran", or the error it stopped with
    cfg,                 \* the resolved arguments and params_dict of main
    overrides,           \* how many of them differ from the base configuration
    region_model,        \* the RegionModel object
    out,                 \* what the last call of run returned
    runs,                \* the number of calls of run that returned
    INFECTIOUS_DAYS_ARR, \* fixed_params.INFECTIOUS_DAYS_ARR (a mutable array)
    DEATHS_DAYS_ARR      \* fixed_params.DEATHS_DAYS_ARR (a mutable array)

vars == <<pc, cfg, overrides, region_model, out, runs,
          INFECTIOUS_DAYS_ARR, DEATHS_DAYS_ARR>>

\* bounds of the model
MaxN == 45

MaxOverrides == 2

MaxRuns == 2

\* an attribute that was never set
NotSet == -1000

\* 2020-08-01: --simulation_start_date
BaseFirstDate == 213

\* the params_dict of main (lines 150-164), its dates moved into the window
BaseParams ==
    <<<<"INITIAL_R_0", 22400>>,
      <<"LOCKDOWN_R_0", 9000>>,
      <<"INFLECTION_DAY", BaseFirstDate + 8>>,
      <<"RATE_OF_INFLECTION", 25>>,
      <<"LOCKDOWN_FATIGUE", 10000>>,
      <<"DAILY_IMPORTS", 100>>,
      <<"MORTALITY_RATE", 100>>,
      <<"REOPEN_DATE", BaseFirstDate + 12>>,
      <<"REOPEN_SHIFT_DAYS", 0>>,
      <<"REOPEN_R", 12000>>,
      <<"REOPEN_INFLECTION", 30>>,
      <<"POST_REOPEN_EQUILIBRIUM_R", 10000>>,
      <<"FALL_R_MULTIPLIER", 10010>>>>

\* the values --set_param is given
ParamAlternatives ==
    [INITIAL_R_0 |-> {30000},
     LOCKDOWN_R_0 |-> {12000},
     INFLECTION_DAY |-> {BaseFirstDate + 3},
     RATE_OF_INFLECTION |-> {50},
     LOCKDOWN_FATIGUE |-> {12000},
     DAILY_IMPORTS |-> {0, 1000},
     MORTALITY_RATE |-> {10, 2000},
     REOPEN_DATE |-> {BaseFirstDate + 5},
     REOPEN_SHIFT_DAYS |-> {-15 * ONE},
     REOPEN_R |-> {50000},
     REOPEN_INFLECTION |-> {60, 5},
     POST_REOPEN_EQUILIBRIUM_R |-> {8000},
     FALL_R_MULTIPLIER |-> {10500}]

\* the arguments of main and the attributes a caller sets on the object;
\* quarantine is (--quarantine_perc in percent, --quarantine_effectiveness
\* in thousandths), import_window is (beginning_days_flat, end_days_offset)
BaseConfig ==
    [country |-> "US", region |-> "", subregion |-> "",
     population |-> 1000000,
     first_date |-> BaseFirstDate,
     create_date |-> BaseFirstDate + 30,
     end_date |-> BaseFirstDate + MaxN - 1,
     randomize_params |-> FALSE,
     skip_hospitalizations |-> FALSE,
     quarantine |-> <<0, -1000>>,
     import_window |-> <<NotSet, NotSet>>,
     params |-> BaseParams]

OptionAlternatives ==
    [country |-> {"China", "Brazil"},
     subregion |-> {"Los Angeles"},
     population |-> {500, 5000000},
     create_date |-> {NoDate, BaseFirstDate},
     end_date |-> {BaseFirstDate + DAYS_BEFORE_DEATH - 1, BaseFirstDate + DAYS_BEFORE_DEATH},
     randomize_params |-> {TRUE},
     skip_hospitalizations |-> {TRUE},
     quarantine |-> {<<50, 100>>, <<100, 500>>, <<150, 500>>, <<50, -1000>>},
     import_window |-> {<<0, MaxN - 9>>, <<5, NotSet>>, <<NotSet, 10>>, <<10, MaxN>>}]

NoOutput ==
    [dates |-> << >>, infections |-> << >>, hospitalizations |-> << >>,
     deaths |-> << >>]

Init ==
    /\ pc = "config"
    /\ cfg = BaseConfig
    /\ overrides = 0
    /\ region_model = NoModel
    /\ out = NoOutput
    /\ runs = 0
    /\ INFECTIOUS_DAYS_ARR = INFECTIOUS_DAYS_INIT
    /\ DEATHS_DAYS_ARR = DEATHS_DAYS_INIT

\* main, lines 171-179: one --set_param name value
SetParam(j, v) ==
    /\ pc = "config"
    /\ overrides < MaxOverrides
    /\ cfg.params[j] = BaseParams[j]
    /\ v \in ParamAlternatives[BaseParams[j][1]]
    /\ cfg' = [cfg EXCEPT !.params[j] = <<BaseParams[j][1], v>>]
    /\ overrides' = overrides + 1
    /\ UNCHANGED <<pc, region_model, out, runs, INFECTIOUS_DAYS_ARR, DEATHS_DAYS_ARR>>

\* main, lines 109-169: one argument other than the base one
SetOption(k, v) ==
    /\ pc = "config"
    /\ overrides < MaxOverrides
    /\ cfg[k] = BaseConfig[k]
    /\ v \in OptionAlternatives[k]
    /\ cfg' = [cfg EXCEPT ![k] = v]
    /\ overrides' = overrides + 1
    /\ UNCHANGED <<pc, region_model, out, runs, INFECTIOUS_DAYS_ARR, DEATHS_DAYS_ARR>>

\* quarantine_effectiveness_to_reduction_idx, keys in thousandths
quarantine_effectiveness_to_reduction_idx ==
    [e \in {25, 100, 250, 500} |->
        IF e = 25 THEN 0 ELSE IF e = 100 THEN 1 ELSE IF e = 250 THEN 2 ELSE 3]

\* main, lines 196-205: the quarantine attributes
with_quarantine(self, quarantine) ==
    IF quarantine[1] > 0
    THEN IF quarantine[2] \in DOMAIN quarantine_effectiveness_to_reduction_idx
         THEN [ok |-> TRUE,
               rm |-> [self EXCEPT
                        !.quarantine_fraction = quarantine[1],
                        !.reduction_idx =
                            quarantine_effectiveness_to_reduction_idx[quarantine[2]],
                        !.attrs = @ \cup {"quarantine_fraction", "reduction_idx"}]]
         ELSE [ok |-> FALSE, rm |-> self]
    ELSE [ok |-> TRUE, rm |-> self]

\* the attributes get_daily_imports looks for, when the caller sets them
with_import_window(self, import_window) ==
    LET s1 == IF import_window[1] # NotSet
              THEN [self EXCEPT !.beginning_days_flat = import_window[1],
                                !.attrs = @ \cup {"beginning_days_flat"}]
              ELSE self
    IN  IF import_window[2] # NotSet
        THEN [s1 EXCEPT !.end_days_offset = import_window[2],
                        !.attrs = @ \cup {"end_days_offset"}]
        ELSE s1

\* main, lines 117-118 and 192-205: the object is constructed and configured
Construct ==
    /\ pc = "config"
    /\ LET region == IF cfg.country # "US" /\ cfg.region = "" THEN "ALL"
                     ELSE cfg.region
           c == RegionModel_init(cfg.country, region, cfg.subregion,
                    cfg.first_date, cfg.create_date, cfg.end_date,
                    cfg.population, cfg.randomize_params,
                    ~cfg.skip_hospitalizations)
           q == with_quarantine(c.rm, cfg.quarantine)
       IN  IF ~c.ok
           THEN pc' = "construct_error" /\ region_model' = NoModel
           ELSE IF ~q.ok
           THEN pc' = "quarantine_error" /\ region_model' = c.rm
           ELSE /\ pc' = "constructed"
                /\ region_model' = with_import_window(q.rm, cfg.import_window)
    /\ UNCHANGED <<cfg, overrides, out, runs, INFECTIOUS_DAYS_ARR, DEATHS_DAYS_ARR>>

\* main, lines 216-217: region_model.init_params(params_tups)
InitParams ==
    /\ pc = "constructed"
    /\ \E draw \in init_params_draws(region_model, cfg.params) :
          \E r \in {init_params(region_model, cfg.params, draw)} :
              /\ region_model' = r.rm
              /\ pc' = IF r.ok THEN "ready" ELSE "init_error"
    /\ UNCHANGED <<cfg, overrides, out, runs, INFECTIOUS_DAYS_ARR, DEATHS_DAYS_ARR>>

\* main, line 225: run(region_model); a caller may run the model again
Run ==
    /\ pc \in {"ready", "ran"}
    /\ runs < MaxRuns
    /\ \E r \in {run(region_model, INFECTIOUS_DAYS_ARR, DEATHS_DAYS_ARR)} :
           /\ region_model' = r.rm
           /\ INFECTIOUS_DAYS_ARR' = r.INFECTIOUS_DAYS_ARR
           /\ DEATHS_DAYS_ARR' = r.DEATHS_DAYS_ARR
           /\ IF r.ok
              THEN /\ pc' = "ran"
                   /\ runs' = runs + 1
                   /\ out' = [dates |-> r.dates, infections |-> r.infections,
                              hospitalizations |-> r.hospitalizations,
                              deaths |-> r.deaths]
              ELSE /\ pc' = "run_error"
                   /\ UNCHANGED <<out, runs>>
    /\ UNCHANGED <<cfg, overrides>>

Next ==
    \/ \E j \in 1..Len(BaseParams) : \E v \in ParamAlternatives[BaseParams[j][1]] :
          SetParam(j, v)
    \/ \E k \in DOMAIN OptionAlternatives : \E v \in OptionAlternatives[k] :
          SetOption(k, v)
    \/ Construct
    \/ InitParams
    \/ Run

Spec == Init /\ [][Next]_vars

\* ------------------------------------------------------------------------
\* The builders of init_params over a window long enough for the ramps of
\* build_ifr_arr and build_undetected_deaths_ratio_arr to end
\* ------------------------------------------------------------------------
MaxBuildN == 125

\* one country of each class of build_undetected_deaths_ratio_arr
BuildCountries == {"US", "China", "Brazil", "India", "Peru"}

InitBuild ==
    /\ pc = "config"
    /\ cfg \in {[BaseConfig EXCEPT !.country = c,
                                  !.end_date = BaseFirstDate + MaxBuildN - 1] :
                   c \in BuildCountries}
    /\ overrides = 0
    /\ region_model = NoModel
    /\ out = NoOutput
    /\ runs = 0
    /\ INFECTIOUS_DAYS_ARR = INFECTIOUS_DAYS_INIT
    /\ DEATHS_DAYS_ARR = DEATHS_DAYS_INIT

NextBuild ==
    \/ \E j \in 1..Len(BaseParams) : \E v \in ParamAlternatives[BaseParams[j][1]] :
          SetParam(j, v)
    \/ \E k \in DOMAIN OptionAlternatives : \E v \in OptionAlternatives[k] :
          SetOption(k, v)
    \/ Construct
    \/ InitParams

SpecBuild == InitBuild /\ [][NextBuild]_vars

\* ------------------------------------------------------------------------
\* init_params on parameter vectors at and beyond the edges of the domains
\* its assertions test
\* ------------------------------------------------------------------------
\* values a caller may pass for each parameter, besides those of --set_param
ParamDomainAlternatives ==
    [INITIAL_R_0 |-> {0, 12000, 10 * ONE, 11 * ONE},
     LOCKDOWN_R_0 |-> {-ONE, 0, 10 * ONE, 11 * ONE},
     INFLECTION_DAY |-> {BaseFirstDate + 12},
     RATE_OF_INFLECTION |-> {0, 100, 120},
     LOCKDOWN_FATIGUE |-> {4000, 5000, 15000, 16000},
     DAILY_IMPORTS |-> {},
     MORTALITY_RATE |-> {0, 1999},
     REOPEN_DATE |-> {BaseFirstDate + 8},
     REOPEN_SHIFT_DAYS |-> {-52 * ONE},
     REOPEN_R |-> {-ONE, 0, 10 * ONE, 11 * ONE},
     REOPEN_INFLECTION |-> {},
     POST_REOPEN_EQUILIBRIUM_R |-> {0, 10 * ONE, 11 * ONE},
     FALL_R_MULTIPLIER |-> {}]

\* a caller of init_params replaces one value of the parameter vector
SetParamAny(j, v) ==
    /\ pc = "config"
    /\ overrides < MaxOverrides
    /\ cfg.params[j] = BaseParams[j]
    /\ v \in ParamAlternatives[BaseParams[j][1]]
              \cup ParamDomainAlternatives[BaseParams[j][1]]
    /\ cfg' = [cfg EXCEPT !.params[j] = <<BaseParams[j][1], v>>]
    /\ overrides' = overrides + 1
    /\ UNCHANGED <<pc, region_model, out, runs, INFECTIOUS_DAYS_ARR, DEATHS_DAYS_ARR>>

\* a caller of init_params passes a name that is not in ALL_PARAMS
AddUnknownParam ==
    /\ pc = "config"
    /\ overrides < MaxOverrides
    /\ Len(cfg.params) = Len(BaseParams)
    /\ cfg' = [cfg EXCEPT !.params = Append(@, <<"R_0", 2 * ONE>>)]
    /\ overrides' = overrides + 1
    /\ UNCHANGED <<pc, region_model, out, runs, INFECTIOUS_DAYS_ARR, DEATHS_DAYS_ARR>>

InitDomain ==
    /\ pc = "config"
    /\ cfg \in {[BaseConfig EXCEPT !.randomize_params = b] : b \in BOOLEAN}
    /\ overrides = 0
    /\ region_model = NoModel
    /\ out = NoOutput
    /\ runs = 0
    /\ INFECTIOUS_DAYS_ARR = INFECTIOUS_DAYS_INIT
    /\ DEATHS_DAYS_ARR = DEATHS_DAYS_INIT

NextDomain ==
    \/ \E j \in 1..Len(BaseParams) :
          \E v \in ParamAlternatives[BaseParams[j][1]]
                      \cup ParamDomainAlternatives[BaseParams[j][1]] :
              SetParamAny(j, v)
    \/ AddUnknownParam
    \/ Construct
    \/ InitParams

SpecDomain == InitDomain /\ [][NextDomain]_vars

\* ------------------------------------------------------------------------
\* Properties
\* ------------------------------------------------------------------------
\* infections[0] + ... + infections[i] of the returned series
CumulativeInfections(i) == SumSeq(SubSeq(out.infections, 1, i + 1))

\* get_daily_imports gives 0 on every day past the seeding window
NoImportsPastSeeding ==
    \A i \in (INCUBATION_DAYS + Len(INFECTIOUS_DAYS_INIT))..(region_model.N - 1) :
        get_daily_imports(region_model, i) = [ok |-> TRUE, v |-> 0]

\* C1: when run has returned and the daily imports are zero on every day
\* past the seeding window, the cumulative sum infections[0..i] is at most
\* the population, for every day index i in 0..N-1.
C1_CumulativeInfectionsWithinPopulation ==
    (pc = "ran" /\ NoImportsPastSeeding) =>
        \A i \in 0..(region_model.N - 1) :
            CumulativeInfections(i) <= region_model.population * PERSON

\* |R[i] / R[i-1] - 1| <= 0.2 for the day index i of the 0-indexed array R
RatioWithinTolerance(R, i) ==
    R[i] # 0 /\ 5 * Abs(R[i + 1] - R[i]) <= Abs(R[i])

\* the curve of build_r_0_arr has a day past reopen_idx that breaks the bound
CurveBreaksTolerance ==
    LET c == r_0_context(region_model)
        R == r_0_values(region_model, c)
    IN  /\ "immunity_mult" \in region_model.attrs
        /\ r_0_params_ok(region_model, c)
        /\ \E i \in 1..(region_model.N - 1) :
              i > c.reopen_idx /\ ~RatioWithinTolerance(R, i)

\* C2: an R_0_ARR is stored on the model only if every day index i with
\* reopen_idx < i < N has |R[i]/R[i-1] - 1| <= 0.2; when a day of the curve
\* breaks the bound, init_params fails and no R_0_ARR is stored.
C2_StabilityGuard ==
    /\ "R_0_ARR" \in region_model.attrs =>
          \A i \in 1..(region_model.N - 1) :
              i > region_model.reopen_idx =>
                  RatioWithinTolerance(region_model.R_0_ARR, i)
    /\ CurveBreaksTolerance =>
          pc = "init_error" /\ "R_0_ARR" \notin region_model.attrs

\* init_params failed on a curve that breaks the bound past reopen_idx
C2_Witness ==
    pc = "init_error" /\ CurveBreaksTolerance /\ "R_0_ARR" \notin region_model.attrs

\* C3 as stated: every entry of a stored ifr_arr lies in
\* [MIN_IFR, MORTALITY_RATE].
C3_IfrWithinMinAndMortalityRate ==
    "ifr_arr" \in region_model.attrs =>
        \A j \in 1..region_model.N :
            /\ MIN_IFR <= region_model.ifr_arr[j]
            /\ region_model.ifr_arr[j] <= region_model.param["MORTALITY_RATE"]

\* C3 amended: every entry of a stored ifr_arr lies in
\* [MIN_IFR, max(MIN_IFR, MORTALITY_RATE)].
C3_IfrWithinMinAndLargerBound ==
    "ifr_arr" \in region_model.attrs =>
        \A j \in 1..region_model.N :
            /\ MIN_IFR <= region_model.ifr_arr[j]
            /\ region_model.ifr_arr[j]
                  <= Max2(MIN_IFR, region_model.param["MORTALITY_RATE"])

\* an ifr_arr built from a MORTALITY_RATE below MIN_IFR
C3_Witness ==
    /\ pc = "ready"
    /\ "ifr_arr" \in region_model.attrs
    /\ region_model.param["MORTALITY_RATE"] < MIN_IFR
    /\ region_model.ifr_arr[1] = MIN_IFR

\* C4: after a successful init_params, R_0_ARR has exactly
\* N = (projection_end_date - first_date).days + 1 entries and its entry 0
\* is INITIAL_R_0 itself.
C4_LengthAndFirstEntry ==
    pc \in {"ready", "ran"} =>
        /\ region_model.N = (cfg.end_date - cfg.first_date) + 1
        /\ Len(region_model.R_0_ARR) = region_model.N
        /\ region_model.R_0_ARR[1] = cfg.params[1][2]

\* an initialized model whose curve has left INITIAL_R_0 by day 1
C4_Witness ==
    /\ pc = "ready"
    /\ Len(region_model.R_0_ARR) = region_model.N
    /\ region_model.R_0_ARR[1] = cfg.params[1][2]
    /\ region_model.R_0_ARR[2] # region_model.R_0_ARR[1]

RunLeavesInputs ==
    /\ region_model'.R_0_ARR = region_model.R_0_ARR
    /\ region_model'.ifr_arr = region_model.ifr_arr
    /\ region_model'.undetected_deaths_ratio_arr
          = region_model.undetected_deaths_ratio_arr
    /\ INFECTIOUS_DAYS_ARR' = INFECTIOUS_DAYS_ARR
    /\ DEATHS_DAYS_ARR' = DEATHS_DAYS_ARR

\* C6: a call of run leaves R_0_ARR, ifr_arr, undetected_deaths_ratio_arr
\* and the module-level kernels INFECTIOUS_DAYS_ARR and DEATHS_DAYS_ARR as
\* they were, and a second call on the same model returns the dates,
\* infections, hospitalizations and deaths of the first (with and without
\* a quarantine adjustment).
C6_RunIsRepeatable ==
    [][(pc \in {"ready", "ran"} /\ pc' \in {"ran", "run_error"}) =>
          /\ RunLeavesInputs
          /\ (pc = "ran" /\ pc' = "ran") => out' = out]_vars

\* a second run of a model with a quarantine adjustment has returned
C6_Witness ==
    /\ pc = "ran"
    /\ runs = 2
    /\ HasAttr(region_model, "quarantine_fraction")
    /\ region_model.reduction_idx > 0
    /\ \E j \in 1..region_model.N : out.deaths[j] > 0

\* C7: with compute_hospitalizations false every entry of the returned
\* hospitalizations is NaN, and the infections and deaths are those that
\* run returns for the same model with compute_hospitalizations true.
C7_HospitalizationsSkipped ==
    (pc = "ran" /\ ~region_model.compute_hospitalizations) =>
        LET computed == run([region_model EXCEPT !.compute_hospitalizations = TRUE],
                            INFECTIOUS_DAYS_ARR, DEATHS_DAYS_ARR)
        IN  /\ \A j \in 1..region_model.N : out.hospitalizations[j] = NaN
            /\ computed.ok
            /\ computed.infections = out.infections
            /\ computed.deaths = out.deaths

\* a run without hospitalizations of a model whose run with them has a
\* day with people in hospital
C7_Witness ==
    /\ pc = "ran"
    /\ ~region_model.compute_hospitalizations
    /\ out.hospitalizations[region_model.N] = NaN
    /\ hospitalizations_day(out.infections, region_model.N - 1) > 0
    /\ out.deaths[region_model.N] > 0

C9_DeathsDistributedByReportLag ==
    pc = "ran" =>
        LET lag == get_reporting_delay_distribution
            weight == [k \in 1..Len(lag.w) |-> (lag.w[k] * ONE) \div lag.d]
            detected == deaths_of(region_model, out.infections,
                                  normalized(DEATHS_DAYS_ARR))
        IN  \A j \in 1..region_model.N :
                out.deaths[j] =
                    SumSeq([k \in 1..Min2(j, Len(weight)) |->
                                Mul(detected[j - k + 1], weight[k])])

\* C10 as stated: both kernels that run convolves with sum to 1, a
\* quarantine adjustment included.
C10_KernelsSumToOne ==
    pc = "ran" =>
        LET infections_norm == infections_norm_of(region_model, INFECTIOUS_DAYS_ARR)
            deaths_norm == normalized(DEATHS_DAYS_ARR)
        IN  /\ SumSeq(infections_norm.w) = infections_norm.d
            /\ SumSeq(deaths_norm.w) = deaths_norm.d

\* C10 amended: deaths_norm sums to 1; infections_norm sums to 1 when no
\* quarantine adjustment is configured and to less than 1 when one is.
C10_KernelsSumToOneUnlessQuarantined ==
    pc = "ran" =>
        LET infections_norm == infections_norm_of(region_model, INFECTIOUS_DAYS_ARR)
            deaths_norm == normalized(DEATHS_DAYS_ARR)
        IN  /\ SumSeq(deaths_norm.w) = deaths_norm.d
            /\ IF HasAttr(region_model, "quarantine_fraction")
               THEN SumSeq(infections_norm.w) < infections_norm.d
               ELSE SumSeq(infections_norm.w) = infections_norm.d

\* a run with a quarantine adjustment whose infectiousness kernel sums to
\* less than 1
C10_Witness ==
    /\ pc = "ran"
    /\ HasAttr(region_model, "quarantine_fraction")
    /\ LET infections_norm == infections_norm_of(region_model, INFECTIOUS_DAYS_ARR)
       IN  /\ 0 < SumSeq(infections_norm.w)
           /\ SumSeq(infections_norm.w) < infections_norm.d

\* C11: whenever run has returned, dates, infections, hospitalizations and
\* deaths all have exactly N entries, dates[0] is first_date, dates[N-1] is
\* projection_end_date and dates[i] is first_date + i days for every i
C11_OutputLengthsAndDates ==
    pc = "ran" =>
        /\ Len(out.dates) = region_model.N
        /\ Len(out.infections) = region_model.N
        /\ Len(out.hospitalizations) = region_model.N
        /\ Len(out.deaths) = region_model.N
        /\ out.dates[1] = cfg.first_date
        /\ out.dates[region_model.N] = cfg.end_date
        /\ \A i \in 0..(region_model.N - 1) :
              out.dates[i + 1] = region_model.first_date + i

\* a run has returned for a window shorter than the base one
C11_Witness ==
    /\ pc = "ran"
    /\ cfg.end_date # BaseConfig.end_date
    /\ Len(out.dates) = cfg.end_date - cfg.first_date + 1

\* C12: whenever run has returned, every entry of the infections series is
\* non-negative and, when hospitalizations are computed, so is every entry
\* of the hospitalizations series
C12_InfectionsAndHospitalizationsNonNegative ==
    pc = "ran" =>
        /\ \A i \in 1..Len(out.infections) : out.infections[i] >= 0
        /\ \A i \in 1..Len(out.hospitalizations) :
              out.hospitalizations[i].nan \/ out.hospitalizations[i].v >= 0

\* the number of days main asks for
RequestedN == (cfg.end_date - cfg.first_date) + 1

ParamValue(params_tups, k) ==
    params_tups[CHOOSE j \in 1..Len(params_tups) : params_tups[j][1] = k][2]

\* a reproduction number in (0, 10]
ReproductionNumberInDomain(r) == 0 < r /\ r <= 10 * ONE

\* every parameter of the vector is inside its declared domain
ParamsInDeclaredDomains(params_tups) ==
    /\ \A k \in {"INITIAL_R_0", "LOCKDOWN_R_0", "REOPEN_R",
                  "POST_REOPEN_EQUILIBRIUM_R"} :
          ReproductionNumberInDomain(ParamValue(params_tups, k))
    /\ 0 < ParamValue(params_tups, "RATE_OF_INFLECTION")
    /\ ParamValue(params_tups, "RATE_OF_INFLECTION") <= 100
    /\ 0 < ParamValue(params_tups, "MORTALITY_RATE")
    /\ ParamValue(params_tups, "MORTALITY_RATE") < 2000
    /\ 5000 <= ParamValue(params_tups, "LOCKDOWN_FATIGUE")
    /\ ParamValue(params_tups, "LOCKDOWN_FATIGUE") <= 15000
    /\ ParamValue(params_tups, "REOPEN_DATE") > ParamValue(params_tups, "INFLECTION_DAY")
    /\ \A j \in 1..Len(params_tups) : params_tups[j][1] \in ParamNames

\* C14 as stated: init_params fails for every parameter vector with a
\* parameter outside its declared domain (a reproduction number outside
\* (0,10], RATE_OF_INFLECTION outside (0,1], MORTALITY_RATE outside (0,0.2),
\* LOCKDOWN_FATIGUE outside [0.5,1.5], REOPEN_DATE not after INFLECTION_DAY,
\* an unknown name) and accepts every vector inside them
C14_FailsExactlyOutsideDomains ==
    pc \in {"ready", "init_error"} =>
        (pc = "ready" <=> ParamsInDeclaredDomains(cfg.params))

\* the domains the assertions of init_params and of the builders enforce
ParamsInEnforcedDomains(params_tups, rate_of_inflection) ==
    LET LOCKDOWN_R_0 == ParamValue(params_tups, "LOCKDOWN_R_0")
        REOPEN_R == ParamValue(params_tups, "REOPEN_R")
        POST_REOPEN_EQUILIBRIUM_R ==
            ParamValue(params_tups, "POST_REOPEN_EQUILIBRIUM_R")
    IN  /\ ReproductionNumberInDomain(ParamValue(params_tups, "INITIAL_R_0"))
        /\ ReproductionNumberInDomain(LOCKDOWN_R_0)
        /\ ReproductionNumberInDomain(
                IF LOCKDOWN_R_0 < ONE THEN Max2(LOCKDOWN_R_0, REOPEN_R)
                ELSE REOPEN_R)
        /\ 0 < POST_REOPEN_EQUILIBRIUM_R /\ POST_REOPEN_EQUILIBRIUM_R < 10 * ONE
        /\ 0 < rate_of_inflection /\ rate_of_inflection <= 100
        /\ 0 < ParamValue(params_tups, "MORTALITY_RATE")
        /\ ParamValue(params_tups, "MORTALITY_RATE") < 2000
        /\ 5000 <= ParamValue(params_tups, "LOCKDOWN_FATIGUE")
        /\ ParamValue(params_tups, "LOCKDOWN_FATIGUE") <= 15000
        /\ ParamValue(params_tups, "REOPEN_DATE")
                > ParamValue(params_tups, "INFLECTION_DAY")
        /\ \A j \in 1..Len(params_tups) : params_tups[j][1] \in ParamNames

\* C14, amended: init_params fails whenever INITIAL_R_0 or LOCKDOWN_R_0 is
\* outside (0,10], the reopening R of get_reopen_r is outside (0,10],
\* POST_REOPEN_EQUILIBRIUM_R is outside (0,10), the rate of inflection in use
\* is outside (0,1], MORTALITY_RATE is outside (0,0.2), LOCKDOWN_FATIGUE is
\* outside [0.5,1.5], REOPEN_DATE is not after INFLECTION_DAY or a name is
\* not in ALL_PARAMS: every vector it accepts is inside these domains
C14_AcceptedVectorsInsideEnforcedDomains ==
    pc = "ready" =>
        ParamsInEnforcedDomains(cfg.params, region_model.rate_of_inflection)

\* init_params has refused a vector whose only fault is a REOPEN_R above
\* 10, which get_reopen_r returns as it is
C14_Witness ==
    /\ pc = "init_error"
    /\ ParamValue(cfg.params, "REOPEN_R") = 11 * ONE
    /\ ParamValue(cfg.params, "LOCKDOWN_R_0") = ParamValue(BaseParams, "LOCKDOWN_R_0")
    /\ ParamsInDeclaredDomains([j \in 1..Len(cfg.params) |->
            IF cfg.params[j][1] = "REOPEN_R" THEN <<"REOPEN_R", ONE>>
            ELSE cfg.params[j]])

\* the parameter vector differs from the accepted one of main in exactly one
\* entry and is outside the declared domains: a failure of init_params on
\* it is raised by the check of that entry
SingleDomainFault ==
    /\ overrides = 1
    /\ Cardinality({j \in 1..Len(cfg.params) :
            j > Len(BaseParams) \/ cfg.params[j] # BaseParams[j]}) = 1
    /\ ~ParamsInDeclaredDomains(cfg.params)

\* C15: when init_params fails because a parameter is unknown, outside its
\* domain or breaks the reopen-after-inflection ordering, none of
\* immunity_mult, R_0_ARR, ifr_arr and undetected_deaths_ratio_arr has been
\* assigned on the model
C15_FailsBeforeDerivedTrajectories ==
    (pc = "init_error" /\ SingleDomainFault) =>
        region_model.attrs \cap {"immunity_mult", "R_0_ARR", "ifr_arr",
                                 "undetected_deaths_ratio_arr"} = {}

\* the day index on which the faster decay after reopening starts
ReopenDecayStart == region_model.reopen_idx + DAYS_BEFORE_DEATH \div 2

\* C16: the stored ifr_arr never increases with the day index, for every
\* country and every reopen_idx, the first and the last day of the 30 days
\* of faster decay after reopening included
C16_IfrNonIncreasing ==
    "ifr_arr" \in region_model.attrs =>
        \A i \in 1..(region_model.N - 1) :
            region_model.ifr_arr[i + 1] <= region_model.ifr_arr[i]

\* an array of an early-impacted country whose 30 days of faster decay
\* start after day index 30 and end before the array does, and which
\* decreases into them, through them and after them
C16_Witness ==
    /\ pc = "ready"
    /\ region_model.country_str \in EARLY_IMPACTED_COUNTRIES
    /\ ReopenDecayStart > 30
    /\ ReopenDecayStart + 31 < region_model.N
    /\ region_model.ifr_arr[ReopenDecayStart + 1]
            > region_model.ifr_arr[ReopenDecayStart + 2]
    /\ region_model.ifr_arr[ReopenDecayStart + 2]
            > region_model.ifr_arr[ReopenDecayStart + 31]
    /\ region_model.ifr_arr[ReopenDecayStart + 31]
            > region_model.ifr_arr[region_model.N]

\* min(1, (infections[0] + ... + infections[i-1]) / population): the
\* fraction of the population infected on all the days before day i
FractionInfectedBefore(i) ==
    Min2(ONE, MulDiv(SumSeq(SubSeq(out.infections, 1, i)), ONE \div PERSON,
                     region_model.population))

\* C17: on every non-seeding day i of a run that returned, the effective R
\* is R_0_ARR[i] * (1 - fraction)^immunity_mult for the fraction of the
\* population infected on all prior days 0..i-1 (capped at 1), and
\* infections[i] is that effective R times the dot product of the
\* infectiousness kernel with the infections of days i-INCUBATION_DAYS-6 ..
\* i-INCUBATION_DAYS, plus the daily imports of day i
C17_InfectionsFromAllPriorDays ==
    pc = "ran" =>
        LET infections_norm == infections_norm_of(region_model, INFECTIOUS_DAYS_ARR)
        IN  \A i \in (INCUBATION_DAYS + Len(infections_norm.w))..(region_model.N - 1) :
                LET n == new_infections(region_model, infections_norm,
                            get_immunity_mult(region_model), out.infections, i,
                            FractionInfectedBefore(i))
                IN  /\ region_model.effective_r_arr[i + 1] = n.effective_r
                    /\ out.infections[i + 1]
                            = n.s + get_daily_imports(region_model, i).v

\* the infections of day d of the returned series, zero before day 0
InfectionsOrZero(d) == IF d < 0 THEN 0 ELSE out.infections[d + 1]

\* the centred convolution for the loop index i on the series extended with
\* zeros: the weight j of the kernel multiplies day i - deaths_offset + j
CenteredConvolution(deaths_norm, i) ==
    LET deaths_offset == Len(deaths_norm.w) \div 2
    IN  SumSeq([j \in 1..Len(deaths_norm.w) |->
            MulDiv(InfectionsOrZero(i - deaths_offset + (j - 1)),
                   deaths_norm.w[j], deaths_norm.d)])

\* C18: for every loop index of the deaths loop whose window starts before
\* day 0, the convolution run computes equals the centred convolution on
\* the infections extended with zeros for negative days: every day in range
\* keeps the weight it has in the whole window, only the weights of the
\* days before day 0 are dropped
C18_TruncatedDeathWindowKeepsWeights ==
    pc = "ran" =>
        LET deaths_norm == normalized(DEATHS_DAYS_ARR)
            deaths_offset == Len(deaths_norm.w) \div 2
        IN  \A i \in (-deaths_offset)..(region_model.N - DAYS_BEFORE_DEATH - 1) :
                i - deaths_offset < 0 =>
                    infections_subject_to_death(out.infections, deaths_norm, i)
                        = CenteredConvolution(deaths_norm, i)

\* C19: on every day index i of the seeding window (i < INCUBATION_DAYS +
\* len(INFECTIOUS_DAYS_ARR)) of a run that returned, infections[i] is the
\* value get_daily_imports(region_model, i) of the import schedule and
\* effective_r_arr[i] is R_0_ARR[i], whatever beginning_days_flat and
\* end_days_offset are
C19_SeedingFollowsImportSchedule ==
    pc = "ran" =>
        \A i \in 0..(INCUBATION_DAYS + Len(INFECTIOUS_DAYS_ARR) - 1) :
            /\ get_daily_imports(region_model, i).ok
            /\ out.infections[i + 1] = get_daily_imports(region_model, i).v
            /\ region_model.effective_r_arr[i + 1] = region_model.R_0_ARR[i + 1]

\* the exponent run applies to (1 - fraction infected) on non-seeding days
RunImmunityExponent == get_immunity_mult(region_model)

\* C20: the immunity exponent run applies equals the immunity_mult that
\* init_params stored on the model, for every country, sub-region and
\* population; for every region that is not a non-US country without
\* sub-region of 20,000,000 people or more it is the constant
\* IMMUNITY_MULTIPLIER or IMMUNITY_MULTIPLIER_US_SUBREGION
C20_RunUsesStoredImmunityMult ==
    pc = "ran" =>
        /\ RunImmunityExponent = region_model.immunity_mult
        /\ ~(region_model.country_str # "US" /\ region_model.subregion_str = ""
                /\ region_model.population >= 20000000)
              => RunImmunityExponent
                    \in {IMMUNITY_MULTIPLIER, IMMUNITY_MULTIPLIER_US_SUBREGION}

\* beginning_days_flat and end_days_offset as get_daily_imports resolves them
ImportsBeginningDaysFlat ==
    IF HasAttr(region_model, "beginning_days_flat")
    THEN region_model.beginning_days_flat ELSE 10

ImportsEndDaysOffset ==
    IF HasAttr(region_model, "end_days_offset")
    THEN region_model.end_days_offset
    ELSE region_model.N - Min2(region_model.N, DAYS_WITH_IMPORTS)

\* the schedule ends at zero: China, South Korea, Australia, or an override
ImportsEndAtZero ==
    \/ region_model.country_str \in {"China", "South Korea", "Australia"}
    \/ HasAttr(region_model, "end_days_offset")

\* min(10, 0.1 * DAILY_IMPORTS), in units of 1 / PERSON
ImportsFloor ==
    Min2(10 * PERSON, (region_model.param["DAILY_IMPORTS"] * PERSON) \div 10)

HospitalizationWindow(i) ==
    {d \in 0..(region_model.N - 1) :
        /\ d >= i - DAYS_UNTIL_HOSPITALIZATION - DAYS_IN_HOSPITAL
        /\ d < i - DAYS_UNTIL_HOSPITALIZATION}

\* the infections of the days of a window, added up
RECURSIVE SumOverDays(_)
SumOverDays(days) ==
    IF days = {} THEN 0
    ELSE LET d == CHOOSE x \in days : TRUE
         IN  out.infections[d + 1] + SumOverDays(days \ {d})

\* C22: when hospitalizations are computed, hospitalizations[i] is
\* HOSPITALIZATION_RATE times the infections summed over the window from
\* DAYS_UNTIL_HOSPITALIZATION + DAYS_IN_HOSPITAL days before i to
\* DAYS_UNTIL_HOSPITALIZATION days before i (the latter day excluded, the
\* window clamped at day 0), truncated to an integer; the window has the
\* fixed width DAYS_IN_HOSPITAL once it lies at or after day 0, and
\* hospitalizations[i] is 0 for every i <= DAYS_UNTIL_HOSPITALIZATION
C22_HospitalizationWindow ==
    (pc = "ran" /\ region_model.compute_hospitalizations) =>
        \A i \in 0..(region_model.N - 1) :
            /\ out.hospitalizations[i + 1]
                 = Num(IntPeople(Mul(SumOverDays(HospitalizationWindow(i)),
                                     HOSPITALIZATION_RATE)))
            /\ i >= DAYS_UNTIL_HOSPITALIZATION + DAYS_IN_HOSPITAL
                 => Cardinality(HospitalizationWindow(i)) = DAYS_IN_HOSPITAL
            /\ i <= DAYS_UNTIL_HOSPITALIZATION
                 => out.hospitalizations[i + 1] = Num(0)

\* a run whose hospitalizations are 0 on day DAYS_UNTIL_HOSPITALIZATION,
\* positive the day after and larger once the window has its full width
C22_Witness ==
    /\ pc = "ran"
    /\ region_model.compute_hospitalizations
    /\ out.hospitalizations[DAYS_UNTIL_HOSPITALIZATION + 1] = Num(0)
    /\ out.hospitalizations[DAYS_UNTIL_HOSPITALIZATION + 2].v > 0
    /\ out.hospitalizations[region_model.N].v
            > out.hospitalizations[DAYS_UNTIL_HOSPITALIZATION + 2].v

\* the day indices build_r_0_arr computes for the model's parameters
LockdownReopenMidpoint == r_0_context(region_model).lockdown_reopen_midpoint_idx

PostReopenMidpoint == r_0_context(region_model).post_reopen_midpoint_idx

\* the regime the claim gives a day
ClaimedRegime(day) ==
    IF day < LockdownReopenMidpoint THEN "lockdown"
    ELSE IF day > PostReopenMidpoint THEN "equilibrium"
    ELSE "reopen"

\* the place of a regime in the order lockdown, reopening, equilibrium
RegimeRank(regime) ==
    IF regime = "lockdown" THEN 1 ELSE IF regime = "reopen" THEN 2 ELSE 3

\* every day 1..N-1 takes its R from the curve of its regime, and the
\* regime never moves back as the day index increases
RegimesAssignedInOrder ==
    LET c == r_0_context(region_model)
    IN  /\ \A day \in 1..(region_model.N - 1) :
              /\ r_0_regime(c, day) = ClaimedRegime(day)
              /\ region_model.R_0_ARR[day + 1] = r_0_day(region_model, c, day)
        /\ \A d1, d2 \in 1..(region_model.N - 1) :
              d1 <= d2 => RegimeRank(r_0_regime(c, d1)) <= RegimeRank(r_0_regime(c, d2))

\* some day of 1..N-1 is in the reopening regime
SomeReopeningDay ==
    \E day \in 1..(region_model.N - 1) :
        r_0_regime(r_0_context(region_model), day) = "reopen"

\* C23 as stated: every day 1..N-1 has one regime (lockdown before the
\* lockdown-reopen midpoint, equilibrium after the post-reopen midpoint,
\* reopening otherwise), the regime only moves forward, and for every
\* accepted parameter vector the reopening regime covers at least one day
\* when N reaches past the lockdown-reopen midpoint
C23_RegimesInOrderWithReopening ==
    pc = "ready" =>
        /\ RegimesAssignedInOrder
        /\ region_model.N - 1 >= Max2(1, LockdownReopenMidpoint) => SomeReopeningDay

\* C23, amended: the regimes are assigned and ordered as stated; the
\* reopening regime covers at least one day when N reaches past the
\* lockdown-reopen midpoint and reopen_idx is not before inflection_day_idx
C23_RegimesInOrder ==
    pc = "ready" =>
        /\ RegimesAssignedInOrder
        /\ (region_model.N - 1 >= Max2(1, LockdownReopenMidpoint)
              /\ region_model.reopen_idx >= inflection_day_idx(region_model))
             => SomeReopeningDay

\* an accepted curve that passes through all three regimes
C23_Witness ==
    /\ pc = "ready"
    /\ r_0_regime(r_0_context(region_model), 1) = "lockdown"
    /\ SomeReopeningDay
    /\ r_0_regime(r_0_context(region_model), region_model.N - 1) = "equilibrium"

\* the day index of the REOPEN_DATE parameter, before any shift
ReopenDateIdx == get_day_idx_from_date(region_model, region_model.param["REOPEN_DATE"])

\* int(REOPEN_SHIFT_DAYS)
ReopenShiftDays == IntTrunc(region_model.param["REOPEN_SHIFT_DAYS"])

\* C24 as stated: for every accepted parameter vector the recorded
\* reopen_idx is strictly greater than inflection_day_idx and lies in
\* 0..N-1, so that inflection_day_idx <= lockdown-reopen midpoint <=
\* reopen_idx < post-reopen midpoint
C24_ReopenIdxAfterInflectionInRange ==
    pc = "ready" =>
        /\ region_model.reopen_idx > inflection_day_idx(region_model)
        /\ region_model.reopen_idx \in 0..(region_model.N - 1)
        /\ inflection_day_idx(region_model) <= LockdownReopenMidpoint
        /\ LockdownReopenMidpoint <= region_model.reopen_idx
        /\ region_model.reopen_idx < PostReopenMidpoint

\* C24, amended: for every accepted parameter vector the day index of
\* REOPEN_DATE is strictly greater than inflection_day_idx >= 0, the recorded
\* reopen_idx is that index + int(REOPEN_SHIFT_DAYS) + 15 and is below the
\* post-reopen midpoint, and the lockdown-reopen midpoint lies between
\* inflection_day_idx and reopen_idx; reopen_idx is after inflection_day_idx
\* whenever int(REOPEN_SHIFT_DAYS) >= -15
C24_ReopenIdxFromShiftedDate ==
    pc = "ready" =>
        /\ 0 <= inflection_day_idx(region_model)
        /\ inflection_day_idx(region_model) < ReopenDateIdx
        /\ region_model.reopen_idx
             = ReopenDateIdx + ReopenShiftDays + DEFAULT_REOPEN_SHIFT_DAYS
        /\ region_model.reopen_idx < PostReopenMidpoint
        /\ Min2(inflection_day_idx(region_model), region_model.reopen_idx)
             <= LockdownReopenMidpoint
        /\ LockdownReopenMidpoint
             <= Max2(inflection_day_idx(region_model), region_model.reopen_idx)
        /\ ReopenShiftDays >= -DEFAULT_REOPEN_SHIFT_DAYS =>
             /\ inflection_day_idx(region_model) < region_model.reopen_idx
             /\ inflection_day_idx(region_model) <= LockdownReopenMidpoint
             /\ LockdownReopenMidpoint <= region_model.reopen_idx

\* an accepted vector whose shift cancels the default one: the reopening
\* takes effect on REOPEN_DATE itself
C24_Witness ==
    /\ pc = "ready"
    /\ ReopenShiftDays = -DEFAULT_REOPEN_SHIFT_DAYS
    /\ region_model.reopen_idx = ReopenDateIdx
    /\ inflection_day_idx(region_model) < region_model.reopen_idx

\* C25: when randomize_params is set, the value a run that returned seeds
\* on every day of the seeding window is the resolved
\* region_model.daily_imports that init_params drew, not the raw
\* DAILY_IMPORTS input, and the rate of inflection the model carries is the
\* one its R_0_ARR was built from
C25_RunUsesResolvedDailyImports ==
    (pc = "ran" /\ region_model.randomize_params) =>
        /\ HasAttr(region_model, "daily_imports")
        /\ \A i \in 0..(INCUBATION_DAYS + Len(INFECTIOUS_DAYS_ARR) - 1) :
              out.infections[i + 1] = region_model.daily_imports * PERSON
        /\ region_model.R_0_ARR = build_r_0_arr(region_model).R_0_ARR

====
